---- MODULE Spec2Model ----
(***************************************************************************)
(* A model of the Snitch cog (src/snitch/snitch.py): the RateLimiter, the  *)
(* notification fan-out of Snitch._notify_words / _send_to_member, the     *)
(* trigger detector Snitch._check_words, the listener Snitch.on_message,   *)
(* the rendering of the notification body and the 'snitch' commands.       *)
(*                                                                         *)
(* Time is discrete: one second of time.time() is WindowTicks ticks.  The  *)
(* clock is taken to be non-decreasing.  asyncio tasks are interleaved at  *)
(* their await points; every action below is the code between two awaits.  *)
(***************************************************************************)
EXTENDS Integers, Sequences, FiniteSets, TLC

(***************************************************************************)
(* Bounds of the model.                                                    *)
(***************************************************************************)
\* ticks in the one-second window of wait_if_needed (the literal 1.0)
WindowTicks == 2
\* the clock runs from 0 to MaxTime
MaxTime == 3
\* the ceiling max_messages_per_second left by construction / 'setrate' is in 1..MaxRate
MaxRate == 2
\* permits of the semaphore _notify_words creates (asyncio.Semaphore(10) in the source)
SemCapacity == 1

\* message.content has at most MaxText characters
MaxText == 4
\* a group has at most MaxWords trigger words
MaxWords == 2

(***************************************************************************)
(* The guild the events run in.                                            *)
(***************************************************************************)
Channels == {"c1"}
Roles == {"r1"}
Humans == {"m1", "m2"}
Bots == {"bot1"}
Members == Humans \cup Bots
\* the order in which role.members lists the members of a role
MemberOrder == <<"bot1", "m1", "m2">>
\* the members role r1 had when the target was configured ('snitch to')
ConfigRoleMembers == {"bot1", "m1"}

\* what the transport answers to one send: success, discord.RateLimited, any
\* other exception (discord.Forbidden, discord.NotFound, ...)
Responses == {"ok", "rate_limited", "error"}
\* the retry_after values a discord.RateLimited carries, in ticks
RetryAfters == {0, 1}

\* the targets a group holds: {"id": coerced.id, "type": type(coerced).__name__}
Chan(c) == [id |-> c, type |-> "TextChannel"]
Memb(m) == [id |-> m, type |-> "Member"]
Role(r) == [id |-> r, type |-> "Role"]

\* the target lists a group is given: every kind of target, alone and mixed,
\* a target listed twice (two keys of the dict resolve to one id), and lists
\* longer than the semaphore has permits
AllGroups ==
    { <<>>,
      <<Chan("c1")>>, <<Memb("m1")>>, <<Memb("bot1")>>, <<Role("r1")>>,
      <<Memb("m1"), Chan("c1")>>, <<Role("r1"), Memb("m1")>>,
      <<Chan("c1"), Chan("c1")>>, <<Memb("bot1"), Role("r1")>>,
      <<Memb("m1"), Chan("c1"), Memb("m1")>> }
\* the groups two events are run on at once
ConcurrentGroups == { <<Chan("c1")>>, <<Memb("m1")>>, <<Memb("m1"), Chan("c1")>> }

\* the notification events: messages that trigger the group, handled at once
Events == {1, 2}
\* task <<e, i>> is send_to_target(targets[i]) of event e
MaxTargets == CHOOSE n \in { Len(g) : g \in AllGroups } : \A g \in AllGroups : Len(g) <= n
Tasks == Events \X (1..MaxTargets)
NoTask == <<0, 0>>

Range(s) == { s[i] : i \in DOMAIN s }

VARIABLES
    now,                     \* time.time(), in ticks
    message_timestamps,      \* RateLimiter.message_timestamps
    max_messages_per_second, \* RateLimiter.max_messages_per_second
    lock,                    \* the task holding RateLimiter.lock, or NoTask
    sleepUntil,              \* per task: when its asyncio.sleep ends
    channels,                \* the channels guild.get_channel resolves
    guildMembers,            \* the members guild.get_member resolves
    roles,                   \* the roles guild.get_role resolves
    roleMembers,             \* role -> the members holding the role
    targets,                 \* notifygroup["targets"].values() of the group
    epc,                     \* per event: "pending", "running", "returned"
    semFree,                 \* per event: free permits of its semaphore
    pc,                      \* per task: where the task is
    cur,                     \* per task: the channel or member being sent to
    queue,                   \* per task: the members of the role still to do
    sent,                    \* per task: the transport calls made, in order
    errlog,                  \* per task: the logging.error entries, in order
    slots,                   \* per task: timestamps it appended to the window
    expanded,                \* per task: what its target stood for when it was read
    word_list,               \* notifygroup.get("words") of the group checked
    content,                 \* message.content
    matches,                 \* the set _check_words passes to _notify_words
    dpc,                     \* on_message / _check_words: where the handler is
    current_time,            \* per task: the local current_time of its wait_if_needed call
    base_msg,                \* notifygroup.get("message"): the template, <<>> for None
    context,                 \* display name, joined words, guild name, channel name
    rendered,                \* per event: base_msg after the substitutions
    notifygroups,            \* the guild's "notifygroups" value of the Config
    replies,                 \* what the last command sent to ctx.channel, in order
    raised,                  \* the exception the last command ended with, "none" if none
    command,                 \* the last command: its name, group and arguments
    before,                  \* notifygroups and the ceiling when the last command began
    event,                   \* the discord.Message given to on_message
    headers,                 \* the argument of the last update_from_headers call
    remaining_requests,      \* RateLimiter.remaining_requests
    rate_limit_reset_time,   \* RateLimiter.rate_limit_reset_time, in tenths
    cfg_lock,                \* the command inside "async with ... notifygroups()", 0 if none
    raw_value,               \* per command: the value its "async with" block works on
    ppc,                     \* per command: "idle", "inside", "done"
    pcmd                     \* per command: the command it runs

vars == << now, message_timestamps, max_messages_per_second, lock, sleepUntil,
           channels, guildMembers, roles, roleMembers, targets, epc, semFree,
           pc, cur, queue, sent, errlog, slots, expanded,
           word_list, content, matches, dpc,
           current_time, base_msg, context, rendered, notifygroups, replies, raised,
           command, before, event,
           headers, remaining_requests, rate_limit_reset_time,
           cfg_lock, raw_value, ppc, pcmd >>

detectorVars == << word_list, content, matches, dpc >>
fanoutVars == << now, message_timestamps, max_messages_per_second, lock, sleepUntil,
                channels, guildMembers, roles, roleMembers, targets, epc, semFree,
                pc, cur, queue, sent, errlog, slots, expanded >>
\* the RateLimiter's fields, and the local of the wait_if_needed call under way
limiterVars == << message_timestamps, max_messages_per_second, lock, current_time >>
commandVars == << notifygroups, replies, raised, command, before >>
\* what the fan-out reads but never writes
statusVars == << headers, remaining_requests, rate_limit_reset_time >>
sectionVars == << cfg_lock, raw_value, ppc, pcmd >>
otherVars == << detectorVars, base_msg, context, commandVars, event, statusVars, sectionVars >>
worldVars == << channels, guildMembers, roles, roleMembers >>

taskVars == << pc, cur, queue, semFree >>
histVars == << sent, errlog, slots, expanded >>

EventOf(t) == t[1]
TargetOf(t) == targets[t[2]]
TasksOf(e) == { <<e, i>> : i \in 1..Len(targets) }

(***************************************************************************)
(* RateLimiter.wait_if_needed                                              *)
(***************************************************************************)
\* the timestamps kept by "if current_time - ts < 1.0"
Prune(ts, at) ==
    SelectSeq(ts, LAMBDA x : at - x < WindowTicks)

\* mutant: the limit is tested with > for >=
AtLimit_Late(ts) == Len(ts) > max_messages_per_second

\* "if len(self.message_timestamps) >= self.max_messages_per_second"
AtLimit(ts) == Len(ts) >= max_messages_per_second

\* "wait_time = 1.0 - (current_time - self.message_timestamps[0])"
WaitTime(ts, at) == WindowTicks - (at - ts[1])

\* the timestamps of the window that lie in the trailing second (t-1, t]
InWindow(ts, t) == { i \in DOMAIN ts : ts[i] <= t /\ t - ts[i] < WindowTicks }

(***************************************************************************)
(* Where a task goes next: its place, the recipient in hand, and the role  *)
(* members still to be sent to.                                            *)
(***************************************************************************)
Ctl(p, c, q) == [pc |-> p, cur |-> c, queue |-> q]
DoneCtl == Ctl("done", "", <<>>)

\* mutant: the bot test is left out
MemberIsBot_Never(m) == FALSE

\* "if member.bot: return" of _send_to_member
MemberIsBot(m) == m \in Bots

\* mutant: "if chan:" is left out
get_channel_Unchecked(id) == TRUE

\* guild.get_channel / get_member / get_role give an object, not None
get_channel(id) == id \in channels
get_member(id) == id \in guildMembers
get_role(id) == id \in roles

\* mutant: the members are those stored when the target was configured
role_members_Cached(r) == { m \in guildMembers : m \in ConfigRoleMembers }

\* role.members: the guild's members that hold the role, read when called
role_members(r) == { m \in guildMembers : m \in roleMembers[r] }
RoleMembersList(r) == SelectSeq(MemberOrder, LAMBDA m : m \in role_members(r))

\* "for member in role.members: await self._send_to_member(member, ...)":
\* _send_to_member returns at once for a bot, and reaches wait_if_needed for
\* anyone else; a Member target is the one-member case
RECURSIVE NextMemberCtl(_)
NextMemberCtl(q) ==
    IF q = <<>> THEN DoneCtl
    ELSE IF MemberIsBot(Head(q)) THEN NextMemberCtl(Tail(q))
    ELSE Ctl("m_wait", Head(q), Tail(q))

\* the try block of send_to_target up to its first await
DispatchCtl(target) ==
    CASE target.type = "TextChannel" ->
            IF get_channel(target.id) THEN Ctl("t_wait", target.id, <<>>)
            ELSE DoneCtl
      [] target.type = "Member" ->
            IF get_member(target.id) THEN NextMemberCtl(<<target.id>>)
            ELSE DoneCtl
      [] target.type = "Role" ->
            IF get_role(target.id) THEN NextMemberCtl(RoleMembersList(target.id))
            ELSE DoneCtl

\* the retry of send_to_target's "except discord.RateLimited" after its
\* wait_if_needed: the target is resolved again and sent to without
\* _send_to_member
RetryCtl(target) ==
    CASE target.type = "TextChannel" ->
            IF get_channel(target.id) THEN Ctl("t_rsend", target.id, <<>>)
            ELSE DoneCtl
      [] target.type = "Member" ->
            IF get_member(target.id) THEN Ctl("t_rsend", target.id, <<>>)
            ELSE DoneCtl
      [] target.type = "Role" ->
            IF get_role(target.id) /\ RoleMembersList(target.id) # <<>>
            THEN Ctl("t_rsend", Head(RoleMembersList(target.id)),
                     Tail(RoleMembersList(target.id)))
            ELSE DoneCtl

\* the code after a wait_if_needed call returns
AfterWaitCtl(t) ==
    CASE pc[t] = "t_wait" -> Ctl("t_send", cur[t], queue[t])
      [] pc[t] = "m_wait" -> Ctl("m_send", cur[t], queue[t])
      [] pc[t] = "m_rwait" -> Ctl("m_rsend", cur[t], queue[t])
      [] pc[t] = "t_rwait" -> RetryCtl(TargetOf(t))

WaitLocs == {"t_wait", "m_wait", "m_rwait", "t_rwait"}

\* the task moves on; leaving "async with sem" gives the permit back
SetCtl(t, ctl) ==
    /\ pc' = [pc EXCEPT ![t] = ctl.pc]
    /\ cur' = [cur EXCEPT ![t] = ctl.cur]
    /\ queue' = [queue EXCEPT ![t] = ctl.queue]
    /\ semFree' = IF ctl.pc = "done"
                  THEN [semFree EXCEPT ![EventOf(t)] = @ + 1]
                  ELSE semFree

Record(t, to, resp) == sent' = [sent EXCEPT ![t] = Append(@, [to |-> to, resp |-> resp])]
LogError(t, kind, to) == errlog' = [errlog EXCEPT ![t] = Append(@, [kind |-> kind, to |-> to])]

(***************************************************************************)
(* What the except clauses decide.                                         *)
(***************************************************************************)
\* mutant: an exception leaves _send_to_member and ends the loop over the role
MemberFailedCtl_Abort(t, resp) ==
    IF resp = "rate_limited" THEN Ctl("m_backoff", cur[t], queue[t])
    ELSE DoneCtl

\* _send_to_member, first attempt failed: "except discord.RateLimited" sleeps
\* and retries, "except Exception" logs and returns
MemberFailedCtl(t, resp) ==
    IF resp = "rate_limited" THEN Ctl("m_backoff", cur[t], queue[t])
    ELSE NextMemberCtl(queue[t])

\* mutant: a failed retry is retried
MemberRetryFailedCtl_Loop(t, resp) == Ctl("m_backoff", cur[t], queue[t])

\* _send_to_member, retry failed: "except Exception as retry_e" logs and returns
MemberRetryFailedCtl(t, resp) == NextMemberCtl(queue[t])

\* mutant: every exception is retried, not only discord.RateLimited
TargetFailedCtl_RetryAll(t, resp) == Ctl("t_backoff", cur[t], queue[t])

\* send_to_target, first attempt failed: "except discord.RateLimited" sleeps and
\* retries, "except Exception" logs and leaves
TargetFailedCtl(t, resp) ==
    IF resp = "rate_limited" THEN Ctl("t_backoff", cur[t], queue[t])
    ELSE DoneCtl

\* send_to_target, retry failed: "except Exception as retry_e" logs and leaves
TargetRetryFailedCtl(t, resp) == DoneCtl

\* the kind of logging.error entry a failed first attempt leaves
FirstErrorKind(resp) == IF resp = "rate_limited" THEN "RATE LIMITED" ELSE "EXCEPTION"

(***************************************************************************)
(* Snitch._notify_words                                                    *)
(***************************************************************************)
\* the text of a token of the template: "{{author}}" is the three pieces
\* "{{", "author", "}}", so that a marker can also come together from pieces
Marker(name) == << "{{", name, "}}" >>

\* s starts with old
StartsWith(s, old) == Len(old) <= Len(s) /\ SubSeq(s, 1, Len(old)) = old

\* str.replace(old, new): the occurrences of old from left to right, without
\* overlap, each replaced by new
RECURSIVE Replace(_, _, _)
Replace(s, old, new) ==
    IF s = <<>> THEN <<>>
    ELSE IF StartsWith(s, old) THEN new \o Replace(SubSeq(s, Len(old) + 1, Len(s)), old, new)
    ELSE << Head(s) >> \o Replace(Tail(s), old, new)

\* "Snitching on {{author}} for saying {{words}}"
DefaultTemplate == << "Snitching on " >> \o Marker("author") \o << " for saying " >> \o Marker("words")

\* "base_msg = base_msg or <default>", then the chain of four str.replace
\* calls, each on the result of the one before
Render(template, ctx) ==
    Replace(Replace(Replace(Replace(IF template = <<>> THEN DefaultTemplate ELSE template,
                                    Marker("author"), ctx.author),
                            Marker("words"), ctx.words),
                    Marker("server"), ctx.server),
            Marker("channel"), ctx.channel)

\* the body is rendered, then "for target in targets:
\* waitlist.append(asyncio.create_task(...))" and "if waitlist: await
\* asyncio.wait(...)"; the semaphore is made here, per call
NotifyWords(e) ==
    /\ epc[e] = "pending"
    /\ rendered' = [rendered EXCEPT ![e] = Render(base_msg, context)]
    /\ epc' = [epc EXCEPT ![e] = IF targets = <<>> THEN "returned" ELSE "running"]
    /\ pc' = [t \in Tasks |-> IF t \in TasksOf(e) THEN "created" ELSE pc[t]]
    /\ semFree' = [semFree EXCEPT ![e] = SemCapacity]
    /\ UNCHANGED << now, limiterVars, sleepUntil, worldVars, targets, cur, queue, histVars, otherVars >>

\* mutant: return_when=asyncio.FIRST_COMPLETED
AllCompleted_First(e) == \E t \in TasksOf(e) : pc[t] = "done"

\* asyncio.wait(waitlist, return_when=asyncio.ALL_COMPLETED) is over
AllCompleted(e) == \A t \in TasksOf(e) : pc[t] = "done"

NotifyWordsReturn(e) ==
    /\ epc[e] = "running"
    /\ AllCompleted(e)
    /\ epc' = [epc EXCEPT ![e] = "returned"]
    /\ UNCHANGED << now, limiterVars, sleepUntil, worldVars, targets, taskVars, histVars, rendered, otherVars >>

\* what the target stands for when the task reads it: the channel, the member
\* or the role's members, bots left out; stale when the id resolves to nothing
Expansion(target) ==
    CASE target.type = "TextChannel" ->
            [live |-> target.id \in channels, to |-> {target.id} \cap channels]
      [] target.type = "Member" ->
            [live |-> target.id \in guildMembers,
             to |-> ({target.id} \cap guildMembers) \ Bots]
      [] target.type = "Role" ->
            [live |-> target.id \in roles,
             to |-> IF target.id \in roles
                    THEN { m \in guildMembers : m \in roleMembers[target.id] } \ Bots
                    ELSE {}]

\* send_to_target from "async with sem" to its first await
TaskStart(t) ==
    /\ pc[t] = "created"
    /\ semFree[EventOf(t)] > 0
    /\ LET ctl == DispatchCtl(TargetOf(t))
       IN  /\ pc' = [pc EXCEPT ![t] = ctl.pc]
           /\ cur' = [cur EXCEPT ![t] = ctl.cur]
           /\ queue' = [queue EXCEPT ![t] = ctl.queue]
           /\ semFree' = IF ctl.pc = "done" THEN semFree
                         ELSE [semFree EXCEPT ![EventOf(t)] = @ - 1]
    /\ expanded' = [expanded EXCEPT ![t] = Expansion(TargetOf(t))]
    /\ UNCHANGED << now, limiterVars, sleepUntil, worldVars, targets, epc, sent, errlog, slots, rendered, otherVars >>

(***************************************************************************)
(* wait_if_needed, called by task t                                        *)
(***************************************************************************)
\* the lock is free: prune, then either append and return, or go to sleep
\* with the lock held
WaitIfNeededEnter(t) ==
    /\ pc[t] \in WaitLocs
    /\ lock = NoTask
    /\ LET entry == now
           kept == Prune(message_timestamps, entry)
       IN  IF AtLimit(kept) /\ WaitTime(kept, entry) > 0
           THEN /\ message_timestamps' = kept
                /\ lock' = t
                /\ sleepUntil' = [sleepUntil EXCEPT ![t] = entry + WaitTime(kept, entry)]
                /\ current_time' = [current_time EXCEPT ![t] = entry]
                /\ UNCHANGED << taskVars, slots >>
           ELSE /\ message_timestamps' = Append(kept, entry)
                /\ slots' = [slots EXCEPT ![t] = @ + 1]
                /\ SetCtl(t, AfterWaitCtl(t))
                /\ UNCHANGED << lock, sleepUntil, current_time >>
    /\ UNCHANGED << now, max_messages_per_second, worldVars, targets, epc, sent, errlog, expanded, rendered, otherVars >>

\* mutant: the time read on entry is appended after the sleep
StampAfterSleep_Stale(t) == current_time[t]

\* "current_time = time.time()" after the sleep
StampAfterSleep(t) == now

\* mutant: the lock is not given back
Released_Kept(t) == t

\* the end of the "async with self.lock" block: the lock is free again
Released(t) == NoTask

\* asyncio.sleep(wait_time) is over: "current_time = time.time()", append,
\* leave the lock
WaitIfNeededWake(t) ==
    /\ pc[t] \in WaitLocs
    /\ lock = t
    /\ now >= sleepUntil[t]
    /\ message_timestamps' = Append(message_timestamps, StampAfterSleep(t))
    /\ current_time' = [current_time EXCEPT ![t] = 0]
    /\ slots' = [slots EXCEPT ![t] = @ + 1]
    /\ lock' = Released(t)
    /\ sleepUntil' = [sleepUntil EXCEPT ![t] = 0]
    /\ SetCtl(t, AfterWaitCtl(t))
    /\ UNCHANGED << now, max_messages_per_second, worldVars, targets, epc, sent, errlog, expanded, rendered, otherVars >>

(***************************************************************************)
(* The transport answers a send.                                           *)
(***************************************************************************)
\* "await asyncio.sleep(e.retry_after)" starts when the task goes to a backoff
Backoff(t, ctl) ==
    IF ctl.pc \in {"m_backoff", "t_backoff"}
    THEN \E retry_after \in RetryAfters :
            sleepUntil' = [sleepUntil EXCEPT ![t] = now + retry_after]
    ELSE UNCHANGED sleepUntil

\* "await member.send(...)" of _send_to_member's try block; the discord.Message
\* it returns has no _response attribute, so update_from_headers is not called
MemberSendDone(t) ==
    /\ pc[t] = "m_send"
    /\ \E resp \in Responses :
          /\ Record(t, cur[t], resp)
          /\ IF resp = "ok"
             THEN /\ SetCtl(t, NextMemberCtl(queue[t]))
                  /\ UNCHANGED << errlog, sleepUntil >>
             ELSE /\ LogError(t, FirstErrorKind(resp), cur[t])
                  /\ SetCtl(t, MemberFailedCtl(t, resp))
                  /\ Backoff(t, MemberFailedCtl(t, resp))
    /\ UNCHANGED << now, limiterVars, worldVars, targets, epc, slots, expanded, rendered, otherVars >>

\* "await member.send(...)" of _send_to_member's retry
MemberRetryDone(t) ==
    /\ pc[t] = "m_rsend"
    /\ \E resp \in Responses :
          /\ Record(t, cur[t], resp)
          /\ IF resp = "ok"
             THEN /\ SetCtl(t, NextMemberCtl(queue[t]))
                  /\ UNCHANGED << errlog, sleepUntil >>
             ELSE /\ LogError(t, "RETRY FAILED", cur[t])
                  /\ SetCtl(t, MemberRetryFailedCtl(t, resp))
                  /\ Backoff(t, MemberRetryFailedCtl(t, resp))
    /\ UNCHANGED << now, limiterVars, worldVars, targets, epc, slots, expanded, rendered, otherVars >>

\* "await chan.send(...)" of send_to_target's try block (no update_from_headers,
\* as for member.send)
TargetSendDone(t) ==
    /\ pc[t] = "t_send"
    /\ \E resp \in Responses :
          /\ Record(t, cur[t], resp)
          /\ IF resp = "ok"
             THEN /\ SetCtl(t, DoneCtl)
                  /\ UNCHANGED << errlog, sleepUntil >>
             ELSE /\ LogError(t, FirstErrorKind(resp), cur[t])
                  /\ SetCtl(t, TargetFailedCtl(t, resp))
                  /\ Backoff(t, TargetFailedCtl(t, resp))
    /\ UNCHANGED << now, limiterVars, worldVars, targets, epc, slots, expanded, rendered, otherVars >>

\* a send of send_to_target's retry: the channel, the member, or the next
\* member of the role
TargetRetryDone(t) ==
    /\ pc[t] = "t_rsend"
    /\ \E resp \in Responses :
          /\ Record(t, cur[t], resp)
          /\ IF resp = "ok"
             THEN /\ SetCtl(t, IF queue[t] = <<>> THEN DoneCtl
                               ELSE Ctl("t_rsend", Head(queue[t]), Tail(queue[t])))
                  /\ UNCHANGED << errlog, sleepUntil >>
             ELSE /\ LogError(t, "RETRY FAILED", cur[t])
                  /\ SetCtl(t, TargetRetryFailedCtl(t, resp))
                  /\ Backoff(t, TargetRetryFailedCtl(t, resp))
    /\ UNCHANGED << now, limiterVars, worldVars, targets, epc, slots, expanded, rendered, otherVars >>

\* mutant: the retry sends without a wait_if_needed call of its own
AfterBackoff_NoWait(t) == IF pc[t] = "m_backoff" THEN "m_rsend" ELSE "t_rsend"

\* the first statement of either retry block is "await
\* self.rate_limiter.wait_if_needed()"
AfterBackoff(t) == IF pc[t] = "m_backoff" THEN "m_rwait" ELSE "t_rwait"

\* "await asyncio.sleep(e.retry_after)" is over: on to the retry's wait_if_needed
BackoffDone(t) ==
    /\ pc[t] \in {"m_backoff", "t_backoff"}
    /\ now >= sleepUntil[t]
    /\ pc' = [pc EXCEPT ![t] = AfterBackoff(t)]
    /\ sleepUntil' = [sleepUntil EXCEPT ![t] = 0]
    /\ UNCHANGED << now, limiterVars, worldVars, targets, epc, cur, queue, semFree, histVars, rendered, otherVars >>

(***************************************************************************)
(* The guild changes while events run, and time passes.                    *)
(***************************************************************************)
\* a task that has yet to resolve target [id, type]: the guild's state matters
\* to the events only until then
Unresolved(t) == pc[t] = "created" \/ (pc[t] = "absent" /\ t \in TasksOf(EventOf(t)) /\ epc[EventOf(t)] = "pending")
ToBeRead(id, type) ==
    \E t \in Tasks :
        /\ t[2] \in DOMAIN targets
        /\ TargetOf(t) = [id |-> id, type |-> type]
        /\ \/ Unresolved(t)
           \/ type = "TextChannel" /\ pc[t] \in {"t_wait", "t_send", "t_backoff", "t_rwait"}
Dispatching == \E e \in Events : epc[e] \in {"pending", "running"}

DeleteChannel(c) ==
    /\ c \in channels
    /\ ToBeRead(c, "TextChannel")
    /\ channels' = channels \ {c}
    /\ UNCHANGED << now, limiterVars, sleepUntil, guildMembers, roles, roleMembers, targets, epc, taskVars, histVars, rendered, otherVars >>

DeleteRole(r) ==
    /\ r \in roles
    /\ ToBeRead(r, "Role")
    /\ roles' = roles \ {r}
    /\ UNCHANGED << now, limiterVars, sleepUntil, channels, guildMembers, roleMembers, targets, epc, taskVars, histVars, rendered, otherVars >>

MemberLeaves(m) ==
    /\ m \in guildMembers
    /\ ToBeRead(m, "Member")
    /\ guildMembers' = guildMembers \ {m}
    /\ UNCHANGED << now, limiterVars, sleepUntil, channels, roles, roleMembers, targets, epc, taskVars, histVars, rendered, otherVars >>

RoleGrant(m, r) ==
    /\ r \in roles
    /\ ToBeRead(r, "Role")
    /\ m \notin roleMembers[r]
    /\ roleMembers' = [roleMembers EXCEPT ![r] = @ \cup {m}]
    /\ UNCHANGED << now, limiterVars, sleepUntil, channels, guildMembers, roles, targets, epc, taskVars, histVars, rendered, otherVars >>

RoleRevoke(m, r) ==
    /\ r \in roles
    /\ ToBeRead(r, "Role")
    /\ m \in roleMembers[r]
    /\ roleMembers' = [roleMembers EXCEPT ![r] = @ \ {m}]
    /\ UNCHANGED << now, limiterVars, sleepUntil, channels, guildMembers, roles, targets, epc, taskVars, histVars, rendered, otherVars >>

\* a sleep that has not ended, or a timestamp still inside the window
TimeMatters ==
    \/ \E t \in Tasks : sleepUntil[t] > now
    \/ InWindow(message_timestamps, now) # {}

\* the clock advances; while nobody sleeps and the window holds no live
\* timestamp, a later time gives the code nothing else to read
Tick ==
    /\ Dispatching
    /\ TimeMatters
    /\ now < MaxTime
    /\ now' = now + 1
    /\ UNCHANGED << limiterVars, sleepUntil, worldVars, targets, epc, taskVars, histVars, rendered, otherVars >>

(***************************************************************************)
(* The specification of the fan-out.                                       *)
(***************************************************************************)
\* a message of a member, in a guild, that passes every test of on_message
PlainEvent == [guild |-> TRUE, disabled |-> FALSE, prefix |-> FALSE,
               author |-> "member", immune |-> FALSE, edited |-> FALSE]
\* the values the default template is filled with
PlainContext == [author |-> << "ann" >>, words |-> << "wifi" >>,
                 server |-> << "guild" >>, channel |-> << "general" >>]
\* default_guild_settings = {"notifygroups": {}}
NoGroups == [g \in {} |-> <<>>]

\* no wait_if_needed call is under way, the group has no template of its own
\* and nothing is rendered yet
NoRendering ==
    /\ current_time = [t \in Tasks |-> 0]
    /\ base_msg = <<>>
    /\ context = PlainContext
    /\ rendered = [e \in Events |-> <<>>]
\* the commands that can run at once
Commands == {1, 2}
NoCommand == [name |-> "none", group |-> <<>>, args |-> <<>>, value |-> 0]

\* no command has been given
NoCommands ==
    /\ notifygroups = NoGroups
    /\ replies = <<>>
    /\ raised = "none"
    /\ command = NoCommand
    /\ before = [groups |-> NoGroups, ceiling |-> 0]
    /\ cfg_lock = 0
    /\ raw_value = [p \in Commands |-> NoGroups]
    /\ ppc = [p \in Commands |-> "done"]
    /\ pcmd = [p \in Commands |-> NoCommand]

\* RateLimiter.__init__: "self.remaining_requests = 50",
\* "self.rate_limit_reset_time = 0"; no header has been seen
FreshStatus ==
    /\ headers = NoGroups
    /\ remaining_requests = 50
    /\ rate_limit_reset_time = 0

InitWith(events, groups) ==
    /\ NoRendering
    /\ NoCommands
    /\ FreshStatus
    /\ event = PlainEvent
    /\ now = 0
    /\ message_timestamps = <<>>
    /\ max_messages_per_second \in 1..MaxRate
    /\ lock = NoTask
    /\ sleepUntil = [t \in Tasks |-> 0]
    /\ channels = Channels
    /\ guildMembers = Members
    /\ roles = Roles
    /\ roleMembers = [r \in Roles |-> ConfigRoleMembers]
    /\ targets \in groups
    /\ epc = [e \in Events |-> IF e \in events THEN "pending" ELSE "none"]
    /\ semFree = [e \in Events |-> SemCapacity]
    /\ pc = [t \in Tasks |-> "absent"]
    /\ cur = [t \in Tasks |-> ""]
    /\ queue = [t \in Tasks |-> <<>>]
    /\ sent = [t \in Tasks |-> <<>>]
    /\ errlog = [t \in Tasks |-> <<>>]
    /\ slots = [t \in Tasks |-> 0]
    /\ expanded = [t \in Tasks |-> [live |-> FALSE, to |-> {}]]
    /\ word_list = <<>>
    /\ content = <<>>
    /\ matches = {}
    /\ dpc = "checked"

\* one message triggers the group
Init == InitWith({1}, AllGroups)

\* two messages trigger the group at once
InitConcurrent == InitWith(Events, ConcurrentGroups)

Next ==
    \/ \E e \in Events : NotifyWords(e)
    \/ \E e \in Events : NotifyWordsReturn(e)
    \/ \E t \in Tasks : TaskStart(t)
    \/ \E t \in Tasks : WaitIfNeededEnter(t)
    \/ \E t \in Tasks : WaitIfNeededWake(t)
    \/ \E t \in Tasks : MemberSendDone(t)
    \/ \E t \in Tasks : MemberRetryDone(t)
    \/ \E t \in Tasks : TargetSendDone(t)
    \/ \E t \in Tasks : TargetRetryDone(t)
    \/ \E t \in Tasks : BackoffDone(t)
    \/ \E c \in Channels : DeleteChannel(c)
    \/ \E r \in Roles : DeleteRole(r)
    \/ \E m \in Members : MemberLeaves(m)
    \/ \E m \in Members, r \in Roles : RoleGrant(m, r)
    \/ \E m \in Members, r \in Roles : RoleRevoke(m, r)
    \/ Tick

Spec == Init /\ [][Next]_vars

\* two events at once, on groups without roles (the role actions are disabled there)
NextConcurrent ==
    \/ \E e \in Events : NotifyWords(e)
    \/ \E e \in Events : NotifyWordsReturn(e)
    \/ \E t \in Tasks : TaskStart(t)
    \/ \E t \in Tasks : WaitIfNeededEnter(t)
    \/ \E t \in Tasks : WaitIfNeededWake(t)
    \/ \E t \in Tasks : MemberSendDone(t)
    \/ \E t \in Tasks : MemberRetryDone(t)
    \/ \E t \in Tasks : TargetSendDone(t)
    \/ \E t \in Tasks : TargetRetryDone(t)
    \/ \E t \in Tasks : BackoffDone(t)
    \/ \E c \in Channels : DeleteChannel(c)
    \/ \E m \in Members : MemberLeaves(m)
    \/ Tick

SpecConcurrent == InitConcurrent /\ [][NextConcurrent]_vars

(***************************************************************************)
(* Snitch._check_words: text is a sequence of characters.                  *)
(***************************************************************************)
Alphabet == {"a", "A", "b", " "}
\* the characters \w matches
IsWordChar(c) == c \in {"a", "A", "b"}
\* the case folding of flags=re.I
Lower(c) == IF c = "A" THEN "a" ELSE c

\* the trigger words 'snitch on' was given (a quoted word may hold spaces)
WordPool == { <<"a">>, <<"A">>, <<"b">>, <<"a", "b">>, <<"a", " ", "b">> }

RECURSIVE TextsUpTo(_)
TextsUpTo(n) ==
    IF n = 0 THEN { <<>> }
    ELSE LET shorter == TextsUpTo(n - 1)
         IN  shorter \cup { Append(s, c) : s \in shorter, c \in Alphabet }

\* word lists as _words_add builds them: no entry twice
RECURSIVE WordListsUpTo(_)
WordListsUpTo(n) ==
    IF n = 0 THEN { <<>> }
    ELSE LET shorter == WordListsUpTo(n - 1)
         IN  shorter \cup UNION { { Append(l, w) : w \in { v \in WordPool : \A k \in DOMAIN l : l[k] # v } }
                                   : l \in shorter }

\* \b between text[i] and text[i+1]: a word character on exactly one side
WordBoundary(text, i) ==
    (i >= 1 /\ i <= Len(text) /\ IsWordChar(text[i]))
    # (i + 1 >= 1 /\ i + 1 <= Len(text) /\ IsWordChar(text[i + 1]))

\* rf"\b{re.escape(w)}\b" matches text from position pos on
MatchAt(text, w, pos) ==
    /\ pos + Len(w) - 1 <= Len(text)
    /\ WordBoundary(text, pos - 1)
    /\ \A k \in 1..Len(w) : Lower(text[pos + k - 1]) = Lower(w[k])
    /\ WordBoundary(text, pos + Len(w) - 1)

\* the first alternative of "|".join(...) that matches at pos, 0 if none
FirstAlternative(text, words, pos) ==
    IF \E k \in DOMAIN words : MatchAt(text, words[k], pos)
    THEN CHOOSE k \in DOMAIN words :
            /\ MatchAt(text, words[k], pos)
            /\ \A j \in 1..(k - 1) : ~MatchAt(text, words[j], pos)
    ELSE 0

\* pattern.findall(text): the matched texts left to right, the scan going on
\* behind each match
RECURSIVE FindAll(_, _, _)
FindAll(text, words, pos) ==
    IF pos > Len(text) THEN <<>>
    ELSE LET k == FirstAlternative(text, words, pos)
         IN  IF k = 0 THEN FindAll(text, words, pos + 1)
             ELSE << SubSeq(text, pos, pos + Len(words[k]) - 1) >>
                  \o FindAll(text, words, pos + Len(words[k]))

\* "matches = set(pattern.findall(message.content))", None without a word list
Matches(words, text) ==
    IF words = <<>> THEN {}
    ELSE { FindAll(text, words, 1)[i] : i \in DOMAIN FindAll(text, words, 1) }

\* one group of _check_words: the matches, and _notify_words is called with
\* them if there are any (its fan-out is the specification Spec)
CheckWords ==
    /\ dpc = "ready"
    /\ matches' = Matches(word_list, content)
    /\ dpc' = IF Matches(word_list, content) # {} THEN "notified" ELSE "checked"
    /\ UNCHANGED << word_list, content, fanoutVars, current_time, base_msg, context, rendered, commandVars, event, statusVars, sectionVars >>

\* a message arrives for a group with a word list; no event is under way
InitDetector ==
    /\ NoRendering
    /\ NoCommands
    /\ FreshStatus
    /\ event = PlainEvent
    /\ now = 0
    /\ message_timestamps = <<>>
    /\ max_messages_per_second = 1
    /\ lock = NoTask
    /\ sleepUntil = [t \in Tasks |-> 0]
    /\ channels = Channels
    /\ guildMembers = Members
    /\ roles = Roles
    /\ roleMembers = [r \in Roles |-> ConfigRoleMembers]
    /\ targets = <<>>
    /\ epc = [e \in Events |-> "none"]
    /\ semFree = [e \in Events |-> SemCapacity]
    /\ pc = [t \in Tasks |-> "absent"]
    /\ cur = [t \in Tasks |-> ""]
    /\ queue = [t \in Tasks |-> <<>>]
    /\ sent = [t \in Tasks |-> <<>>]
    /\ errlog = [t \in Tasks |-> <<>>]
    /\ slots = [t \in Tasks |-> 0]
    /\ expanded = [t \in Tasks |-> [live |-> FALSE, to |-> {}]]
    /\ word_list \in WordListsUpTo(MaxWords)
    /\ content \in TextsUpTo(MaxText)
    /\ matches = {}
    /\ dpc = "ready"

NextDetector == CheckWords

SpecDetector == InitDetector /\ [][NextDetector]_vars

(***************************************************************************)
(* The body _notify_words renders (lines 458-465), on its own: a group     *)
(* without targets, every template with every context.                     *)
(***************************************************************************)
\* the templates 'snitch with' stored; <<>> is no template (None)
Templates ==
    { <<>>,
      << "plain" >>,
      Marker("author") \o << " said " >> \o Marker("words"),
      Marker("words") \o << " in " >> \o Marker("channel") \o << " of " >> \o Marker("server"),
      Marker("channel") \o Marker("author"),
      << "{{" >> \o Marker("author") \o << "}}" >> }
\* message.author.display_name
AuthorNames == { << "ann" >>, << "words" >>, Marker("words"), Marker("author") }
\* " and ".join(words)
WordTexts == { << "wifi" >>, << "wifi", " and ", "lan" >>, Marker("server") }
\* message.guild.name
ServerNames == { << "guild" >>, Marker("channel") }
\* message.channel.name
ChannelNames == { << "general" >>, << "author" >> }

\* the fan-out is idle: no task, an empty window, the guild as configured
FanoutIdle ==
    /\ now = 0
    /\ message_timestamps = <<>>
    /\ lock = NoTask
    /\ sleepUntil = [t \in Tasks |-> 0]
    /\ current_time = [t \in Tasks |-> 0]
    /\ channels = Channels
    /\ guildMembers = Members
    /\ roles = Roles
    /\ roleMembers = [r \in Roles |-> ConfigRoleMembers]
    /\ semFree = [e \in Events |-> SemCapacity]
    /\ pc = [t \in Tasks |-> "absent"]
    /\ cur = [t \in Tasks |-> ""]
    /\ queue = [t \in Tasks |-> <<>>]
    /\ sent = [t \in Tasks |-> <<>>]
    /\ errlog = [t \in Tasks |-> <<>>]
    /\ slots = [t \in Tasks |-> 0]
    /\ expanded = [t \in Tasks |-> [live |-> FALSE, to |-> {}]]
    /\ rendered = [e \in Events |-> <<>>]

\* the detector is idle
DetectorIdle ==
    /\ word_list = <<>>
    /\ content = <<>>
    /\ matches = {}
    /\ dpc = "checked"

InitRender ==
    /\ FanoutIdle
    /\ DetectorIdle
    /\ NoCommands
    /\ FreshStatus
    /\ event = PlainEvent
    /\ max_messages_per_second = 1
    /\ targets = <<>>
    /\ epc = [e \in Events |-> IF e = 1 THEN "pending" ELSE "none"]
    /\ base_msg \in Templates
    /\ context \in [author : AuthorNames, words : WordTexts,
                     server : ServerNames, channel : ChannelNames]

NextRender == \E e \in Events : NotifyWords(e)

SpecRender == InitRender /\ [][NextRender]_vars

(***************************************************************************)
(* The configuration commands ('snitch on', 'noton', 'to', 'notto',        *)
(* 'with', 'clear') and 'snitch setrate'.  A command holds the Config      *)
(* value from "async with ... notifygroups()" to the end of the block, so  *)
(* each is one step; its replies to ctx.channel are taken to succeed.      *)
(***************************************************************************)
\* the arguments the commands are given
GroupArgs == {"tech", "ops"}
\* the words of one 'snitch on' / 'noton': one word, two, a word twice
WordLists == { << "wifi" >>, << "lan" >>, << "wifi", "lan" >>, << "lan", "wifi" >>,
               << "wifi", "wifi" >> }
\* the targets of one 'snitch to' / 'notto'; "zz" is no member, role or
\* channel of the guild
TargetLists == { <<>>, << "m1" >>, << "zz" >>, << "zz", "m1" >>, << "m1", "m1" >> }
MessageArgs == { << "plain" >> }
\* 'snitch clear' without a name, with the quoted empty name "", with a name
ClearArgs == { <<>>, << "" >>, << "tech" >>, << "ops" >> }

\* "if max_messages_per_second < 1 or max_messages_per_second > 50"
RateFloor == 1
RateCap == 50
\* "def __init__(self, max_messages_per_second: int = 35)"
DefaultRate == 35
\* the values 'snitch setrate' is given: every allowed one, and two past each end
RateArgs == (RateFloor - 2)..(RateCap + 2)

\* {"words": [], "targets": {}}; the template of a group without the key
\* "message" reads as None, <<>> here
EmptyDict == [k \in {} |-> Memb("")]
NewGroup == [words |-> <<>>, targets |-> EmptyDict, message |-> <<>>]

\* "notifygroup = notifygroups.get(group)" and "if not notifygroup: notifygroup = {...}"
GetGroup(cfg, group) == IF group \in DOMAIN cfg THEN cfg[group] ELSE NewGroup
\* d[k] = v and d.pop(k)
Put(d, k, v) == [x \in DOMAIN d \cup {k} |-> IF x = k THEN v ELSE d[x]]
Pop(d, k) == [x \in DOMAIN d \ {k} |-> d[x]]

Reply(kind, arg) == [kind |-> kind, arg |-> arg]
Cmd(name, group, args, value) == [name |-> name, group |-> group, args |-> args, value |-> value]

\* every command leaves what it was given and what it found
Began(cmd) ==
    /\ command' = cmd
    /\ before' = [groups |-> notifygroups, ceiling |-> max_messages_per_second]

\* _identify_target for an id: member, then role, then channel; <<>> is None
IdentifyTarget(target) ==
    IF get_member(target) THEN << Memb(target) >>
    ELSE IF get_role(target) THEN << Role(target) >>
    ELSE IF get_channel(target) THEN << Chan(target) >>
    ELSE <<>>

\* mutant: the membership test of _words_add is left out
InList_Never(word, list) == FALSE

\* "word in notifygroup["words"]"
InList(word, list) == word \in Range(list)

\* "for word in words: if not word in notifygroup["words"]: ...append(word)"
RECURSIVE AddWords(_, _)
AddWords(list, words) ==
    IF words = <<>> THEN list
    ELSE AddWords(IF InList(Head(words), list) THEN list ELSE Append(list, Head(words)),
                  Tail(words))

\* list.remove(x): the first x is taken out
RECURSIVE RemoveFirst(_, _)
RemoveFirst(list, x) ==
    IF list = <<>> THEN <<>>
    ELSE IF Head(list) = x THEN Tail(list)
    ELSE << Head(list) >> \o RemoveFirst(Tail(list), x)

\* "for word in words: notifygroup["words"].remove(word)": list.remove raises
\* ValueError for a word that is not there, and the loop ends with it
RECURSIVE RemoveWords(_, _)
RemoveWords(list, words) ==
    IF words = <<>> THEN [words |-> list, removed |-> <<>>, raised |-> FALSE]
    ELSE IF Head(words) \notin Range(list)
         THEN [words |-> list, removed |-> <<>>, raised |-> TRUE]
    ELSE LET r == RemoveWords(RemoveFirst(list, Head(words)), Tail(words))
         IN  [r EXCEPT !.removed = << Head(words) >> \o @]

\* "for target in targets: coerced = ...; if coerced: notifygroup["targets"][target] = {...}"
RECURSIVE AddTargets(_, _)
AddTargets(dict, tgts) ==
    IF tgts = <<>> THEN dict
    ELSE AddTargets(IF IdentifyTarget(Head(tgts)) # <<>>
                    THEN Put(dict, Head(tgts), IdentifyTarget(Head(tgts))[1])
                    ELSE dict,
                    Tail(tgts))

\* "for target in targets: if target in notifygroup["targets"]: ...pop(target)"
RECURSIVE DelTargets(_, _)
DelTargets(dict, tgts) ==
    IF tgts = <<>> THEN [targets |-> dict, replies |-> <<>>]
    ELSE IF Head(tgts) \in DOMAIN dict
         THEN LET r == DelTargets(Pop(dict, Head(tgts)), Tail(tgts))
              IN  [r EXCEPT !.replies = << Reply("Removed", Head(tgts)) >> \o @]
    ELSE LET r == DelTargets(dict, Tail(tgts))
         IN  [r EXCEPT !.replies = << Reply("Couldn't find", Head(tgts)) >> \o @]

\* everything but the Config value, the ceiling and the command's own record
CommandFrame ==
    UNCHANGED << now, message_timestamps, lock, current_time, sleepUntil, worldVars, targets,
                 epc, taskVars, histVars, detectorVars, base_msg, context, rendered, event,
                 statusVars, sectionVars >>

\* 'snitch on <group> <words...>'
WordsAdd(group, words) ==
    /\ LET notifygroup == GetGroup(notifygroups, group)
       IN  notifygroups' = Put(notifygroups, group,
                               [notifygroup EXCEPT !.words = AddWords(@, words)])
    /\ replies' = [i \in 1..Len(words) |-> Reply("will trigger a notification", words[i])]
    /\ raised' = "none"
    /\ Began(Cmd("on", << group >>, words, 0))
    /\ UNCHANGED max_messages_per_second
    /\ CommandFrame

\* 'snitch noton <group> <words...>': when list.remove raises, the command
\* ends there; the words taken out before it are gone from the group's list
\* in the value the block was given, and whether the Config writes that value
\* back on an exception is left open
WordsRemove(group, words) ==
    /\ LET notifygroup == GetGroup(notifygroups, group)
           r == RemoveWords(notifygroup.words, words)
           written == Put(notifygroups, group, [notifygroup EXCEPT !.words = r.words])
       IN  /\ IF ~r.raised THEN notifygroups' = written
              ELSE IF group \in DOMAIN notifygroups THEN notifygroups' \in {notifygroups, written}
              ELSE notifygroups' = notifygroups
           /\ replies' = [i \in 1..Len(r.removed) |->
                             Reply("will no longer trigger a notification", r.removed[i])]
           /\ raised' = IF r.raised THEN "ValueError" ELSE "none"
    /\ Began(Cmd("noton", << group >>, words, 0))
    /\ UNCHANGED max_messages_per_second
    /\ CommandFrame

\* 'snitch to <group> <targets...>'
SnitchAdd(group, tgts) ==
    /\ LET notifygroup == GetGroup(notifygroups, group)
       IN  notifygroups' = Put(notifygroups, group,
                               [notifygroup EXCEPT !.targets = AddTargets(@, tgts)])
    /\ replies' = [i \in 1..Len(tgts) |->
                      IF IdentifyTarget(tgts[i]) # <<>>
                      THEN Reply("will be notified", tgts[i])
                      ELSE Reply("Could not identify", tgts[i])]
    /\ raised' = "none"
    /\ Began(Cmd("to", << group >>, tgts, 0))
    /\ UNCHANGED max_messages_per_second
    /\ CommandFrame

\* 'snitch notto <group> <targets...>': without the group, "Group doesn't
\* exist." is sent and the loop then subscripts None, a TypeError
SnitchDel(group, tgts) ==
    /\ IF group \notin DOMAIN notifygroups
       THEN /\ notifygroups' = notifygroups
            /\ replies' = << Reply("Group doesn't exist.", group) >>
            /\ raised' = IF tgts = <<>> THEN "none" ELSE "TypeError"
       ELSE LET r == DelTargets(notifygroups[group].targets, tgts)
            IN  /\ notifygroups' = [notifygroups EXCEPT ![group].targets = r.targets]
                /\ replies' = r.replies
                /\ raised' = "none"
    /\ Began(Cmd("notto", << group >>, tgts, 0))
    /\ UNCHANGED max_messages_per_second
    /\ CommandFrame

\* 'snitch with <group> <message>'
MessageChange(group, message) ==
    /\ LET notifygroup == GetGroup(notifygroups, group)
       IN  notifygroups' = Put(notifygroups, group, [notifygroup EXCEPT !.message = message])
    /\ replies' = << Reply("Message updated", group) >>
    /\ raised' = "none"
    /\ Began(Cmd("with", << group >>, message, 0))
    /\ UNCHANGED max_messages_per_second
    /\ CommandFrame

\* "if not group": no argument (None), or the empty string
NotGroup(arg) == arg = <<>> \/ arg[1] = ""

\* 'snitch clear [group]'
ClearList(arg) ==
    /\ IF NotGroup(arg)
       THEN /\ notifygroups' = NoGroups
            /\ replies' = << Reply("Cleared all snitch settings.", "") >>
       ELSE IF arg[1] \in DOMAIN notifygroups
       THEN /\ notifygroups' = Pop(notifygroups, arg[1])
            /\ replies' = << Reply("Removed", arg[1]) >>
       ELSE /\ notifygroups' = notifygroups
            /\ replies' = << Reply("Could not find", arg[1]) >>
    /\ raised' = "none"
    /\ Began(Cmd("clear", arg, <<>>, 0))
    /\ UNCHANGED max_messages_per_second
    /\ CommandFrame

\* mutant: only the lower end is tested
RateAllowed_NoCap(v) == ~(v < RateFloor)

\* not "max_messages_per_second < 1 or max_messages_per_second > 50"
RateAllowed(v) == ~(v < RateFloor \/ v > RateCap)

\* 'snitch setrate <n>'
SetRateLimit(v) ==
    /\ IF RateAllowed(v)
       THEN /\ max_messages_per_second' = v
            /\ replies' = << Reply("Rate limit set", "") >>
       ELSE /\ max_messages_per_second' = max_messages_per_second
            /\ replies' = << Reply("Rate limit must be between 1 and 50", "") >>
    /\ raised' = "none"
    /\ Began(Cmd("setrate", <<>>, <<>>, v))
    /\ UNCHANGED notifygroups
    /\ CommandFrame

\* the cog as constructed: no group, the default ceiling, nothing under way
InitCommands ==
    /\ FanoutIdle
    /\ DetectorIdle
    /\ NoCommands
    /\ FreshStatus
    /\ event = PlainEvent
    /\ base_msg = <<>>
    /\ context = PlainContext
    /\ targets = <<>>
    /\ epc = [e \in Events |-> "none"]
    /\ max_messages_per_second = DefaultRate

\* the commands that change the groups
NextCommands ==
    \/ \E group \in GroupArgs, words \in WordLists : WordsAdd(group, words)
    \/ \E group \in GroupArgs, words \in WordLists : WordsRemove(group, words)
    \/ \E group \in GroupArgs, tgts \in TargetLists : SnitchAdd(group, tgts)
    \/ \E group \in GroupArgs, tgts \in TargetLists : SnitchDel(group, tgts)
    \/ \E group \in GroupArgs, message \in MessageArgs : MessageChange(group, message)
    \/ \E arg \in ClearArgs : ClearList(arg)

SpecCommands == InitCommands /\ [][NextCommands]_vars

\* 'snitch setrate' on its own
NextSetRate == \E v \in RateArgs : SetRateLimit(v)

SpecSetRate == InitCommands /\ [][NextSetRate]_vars

(***************************************************************************)
(* Snitch.on_message and on_message_edit, down to the sends.               *)
(***************************************************************************)
\* message.author: a member, a member that is a bot account, a webhook (a
\* bot user that is no member), a user that is no member
AuthorKinds == {"member", "bot", "webhook", "user"}
IsMember(author) == author \in {"member", "bot"}
IsBot(author) == author \in {"bot", "webhook"}

\* mutant: any member counts as a person
ValidUser_AnyMember(author) == IsMember(author)

\* "valid_user = isinstance(author, discord.Member) and not author.bot"
ValidUser(author) == IsMember(author) /\ ~IsBot(author)

\* on_message, and on_message_edit which calls it with the edited message:
\* the tests before "await self._check_words(message)", in their order
OnMessage ==
    /\ dpc = "arrived"
    /\ dpc' = IF ~event.guild THEN "ignored"
              ELSE IF event.disabled THEN "ignored"
              ELSE IF event.prefix THEN "ignored"
              ELSE IF ~ValidUser(event.author) THEN "ignored"
              ELSE IF event.immune THEN "ignored"
              ELSE "ready"
    /\ UNCHANGED << word_list, content, matches, fanoutVars, current_time, base_msg, context,
                    rendered, commandVars, event, statusVars, sectionVars >>

\* "if matches: await self._notify_words(...)" of _check_words
NotifyWordsCall ==
    /\ dpc = "notified"
    /\ epc[1] = "none"
    /\ epc' = [epc EXCEPT ![1] = "pending"]
    /\ dpc' = "notifying"
    /\ UNCHANGED << now, limiterVars, sleepUntil, worldVars, targets, taskVars, histVars,
                    word_list, content, matches, base_msg, context, rendered, commandVars, event, statusVars, sectionVars >>

\* a message, new or edited, from any kind of author, for a group with the
\* word "a", a member and a channel
InitListener ==
    /\ FanoutIdle
    /\ NoCommands
    /\ FreshStatus
    /\ base_msg = <<>>
    /\ context = PlainContext
    /\ max_messages_per_second = 1
    /\ targets = << Memb("m1"), Chan("c1") >>
    /\ epc = [e \in Events |-> "none"]
    /\ word_list = << << "a" >> >>
    /\ content \in { << "a" >>, << "b" >>, << "b", " ", "A" >> }
    /\ matches = {}
    /\ dpc = "arrived"
    /\ event \in [guild : BOOLEAN, disabled : BOOLEAN, prefix : BOOLEAN,
                  author : AuthorKinds, immune : BOOLEAN, edited : BOOLEAN]

NextListener ==
    \/ OnMessage
    \/ CheckWords
    \/ NotifyWordsCall
    \/ \E e \in Events : NotifyWords(e)
    \/ \E e \in Events : NotifyWordsReturn(e)
    \/ \E t \in Tasks : TaskStart(t)
    \/ \E t \in Tasks : WaitIfNeededEnter(t)
    \/ \E t \in Tasks : WaitIfNeededWake(t)
    \/ \E t \in Tasks : MemberSendDone(t)
    \/ \E t \in Tasks : MemberRetryDone(t)
    \/ \E t \in Tasks : TargetSendDone(t)
    \/ \E t \in Tasks : TargetRetryDone(t)
    \/ \E t \in Tasks : BackoffDone(t)
    \/ Tick

SpecListener == InitListener /\ [][NextListener]_vars

(***************************************************************************)
(* RateLimiter.update_from_headers: a header value is a string, here a     *)
(* sequence of characters.                                                 *)
(***************************************************************************)
DigitChars == << "0", "1", "2", "3", "4", "5", "6", "7", "8", "9" >>
IsDigits(s) == \A i \in DOMAIN s : s[i] \in Range(DigitChars)
DigitValue(c) == (CHOOSE i \in DOMAIN DigitChars : DigitChars[i] = c) - 1
RECURSIVE IntValue(_)
IntValue(s) == IF s = <<>> THEN 0 ELSE 10 * IntValue(SubSeq(s, 1, Len(s) - 1)) + DigitValue(s[Len(s)])

\* int(s) succeeds: decimal digits (signs, blanks and underscores are not in
\* the values below)
IsInt(s) == s # <<>> /\ IsDigits(s)
\* float(s) succeeds: digits, or digits around one point with a digit on at
\* least one side (exponents, "inf" and "nan" are not in the values below)
IsFloat(s) ==
    \/ IsInt(s)
    \/ \E k \in DOMAIN s :
          /\ s[k] = "."
          /\ IsDigits(SubSeq(s, 1, k - 1)) /\ IsDigits(SubSeq(s, k + 1, Len(s)))
          /\ Len(s) > 1
\* float(s) in tenths, for values with at most one digit after the point
FloatValue(s) ==
    IF IsDigits(s) THEN 10 * IntValue(s)
    ELSE LET k == CHOOSE i \in DOMAIN s : s[i] = "."
         IN  10 * IntValue(SubSeq(s, 1, k - 1)) + IntValue(SubSeq(s, k + 1, Len(s)))

HeaderKeys == {"X-RateLimit-Remaining", "X-RateLimit-Reset"}
\* "12", "1.5" and "x"
HeaderValues == { << "1", "2" >>, << "1", ".", "5" >>, << "x" >> }
\* the dicts the method is given: each key present or not
HeaderDicts == UNION { [K -> HeaderValues] : K \in SUBSET HeaderKeys }

\* "if 'X-RateLimit-Remaining' in headers: self.remaining_requests = int(...)"
ParsedRemaining(h) ==
    IF "X-RateLimit-Remaining" \notin DOMAIN h
    THEN [exc |-> "none", value |-> remaining_requests]
    ELSE IF IsInt(h["X-RateLimit-Remaining"])
    THEN [exc |-> "none", value |-> IntValue(h["X-RateLimit-Remaining"])]
    ELSE [exc |-> "ValueError", value |-> remaining_requests]

\* "if 'X-RateLimit-Reset' in headers: self.rate_limit_reset_time = float(...)"
ParsedReset(h) ==
    IF "X-RateLimit-Reset" \notin DOMAIN h
    THEN [exc |-> "none", value |-> rate_limit_reset_time]
    ELSE IF IsFloat(h["X-RateLimit-Reset"])
    THEN [exc |-> "none", value |-> FloatValue(h["X-RateLimit-Reset"])]
    ELSE [exc |-> "ValueError", value |-> rate_limit_reset_time]

\* mutant: "except KeyError"
Caught_KeyOnly(exc) == exc = "KeyError"

\* "except (ValueError, KeyError) as e"
Caught(exc) == exc \in {"ValueError", "KeyError"}

\* the whole method: the second assignment is skipped when the first raises;
\* an exception that is not caught leaves the method
UpdateFromHeaders(h) ==
    /\ headers' = h
    /\ LET a == ParsedRemaining(h)
           b == ParsedReset(h)
           exc == IF a.exc # "none" THEN a.exc ELSE b.exc
       IN  /\ remaining_requests' = a.value
           /\ rate_limit_reset_time' = IF a.exc = "none" THEN b.value ELSE rate_limit_reset_time
           /\ raised' = IF exc = "none" \/ Caught(exc) THEN "none" ELSE exc
    /\ UNCHANGED << now, limiterVars, sleepUntil, worldVars, targets, epc, taskVars, histVars,
                    rendered, detectorVars, base_msg, context, notifygroups, replies, command,
                    before, event, sectionVars >>

\* a notification to a channel, while header dicts come in
InitHeaders == InitWith({1}, { << Chan("c1") >> })

NextHeaders ==
    \/ \E e \in Events : NotifyWords(e)
    \/ \E e \in Events : NotifyWordsReturn(e)
    \/ \E t \in Tasks : TaskStart(t)
    \/ \E t \in Tasks : WaitIfNeededEnter(t)
    \/ \E t \in Tasks : WaitIfNeededWake(t)
    \/ \E t \in Tasks : TargetSendDone(t)
    \/ \E t \in Tasks : TargetRetryDone(t)
    \/ \E t \in Tasks : BackoffDone(t)
    \/ \E h \in HeaderDicts : UpdateFromHeaders(h)
    \/ Tick

SpecHeaders == InitHeaders /\ [][NextHeaders]_vars

(***************************************************************************)
(* 'snitch setrate' while a notification runs.                             *)
(***************************************************************************)
\* a notification to a channel listed twice
InitAdjust == InitWith({1}, { << Chan("c1"), Chan("c1") >> })

\* _set_rate_limit assigns the ceiling between any two steps of the tasks,
\* also while a caller of wait_if_needed sleeps
NextAdjust ==
    \/ \E e \in Events : NotifyWords(e)
    \/ \E e \in Events : NotifyWordsReturn(e)
    \/ \E t \in Tasks : TaskStart(t)
    \/ \E t \in Tasks : WaitIfNeededEnter(t)
    \/ \E t \in Tasks : WaitIfNeededWake(t)
    \/ \E t \in Tasks : TargetSendDone(t)
    \/ \E t \in Tasks : TargetRetryDone(t)
    \/ \E t \in Tasks : BackoffDone(t)
    \/ \E v \in 1..MaxRate : Dispatching /\ SetRateLimit(v)
    \/ Tick

SpecAdjust == InitAdjust /\ [][NextAdjust]_vars

(***************************************************************************)
(* Two commands of one server at once.  "async with                        *)
(* self.config.guild(server).notifygroups() as notifygroups" takes the     *)
(* value's lock, hands the block a copy of the stored value and, when the  *)
(* block is left, stores the copy if it differs from what was read, then   *)
(* releases the lock.  The block awaits ctx.channel.send, so other         *)
(* commands run meanwhile.  "notifygroups.clear()" is a call on the value  *)
(* itself and takes no lock.                                               *)
(***************************************************************************)
\* the groups stored before the two commands: one group with a word and a target
StoredGroups ==
    Put(NoGroups, "tech", [words |-> << "wifi" >>,
                           targets |-> Put(EmptyDict, "m1", Memb("m1")),
                           message |-> <<>>])

\* 'snitch clear' without a group
ClearAllCmd == Cmd("clear", <<>>, <<>>, 0)
\* one command of each other kind, on the stored group, and one on a new group
SectionCmds ==
    { Cmd("on", << "tech" >>, << "lan" >>, 0),
      Cmd("on", << "ops" >>, << "lan" >>, 0),
      Cmd("noton", << "tech" >>, << "wifi" >>, 0),
      Cmd("to", << "tech" >>, << "m2" >>, 0),
      Cmd("notto", << "tech" >>, << "m1" >>, 0),
      Cmd("with", << "tech" >>, << "plain" >>, 0),
      Cmd("clear", << "tech" >>, <<>>, 0) }

\* what the block of command c makes of the copy cfg it was given; a block
\* that raises (list.remove of a missing word, a subscript of None) has left
\* the copy as it was for these commands
Body(c, cfg) ==
    LET group == c.group[1]
        notifygroup == GetGroup(cfg, group)
    IN  CASE c.name = "on" ->
                Put(cfg, group, [notifygroup EXCEPT !.words = AddWords(@, c.args)])
          [] c.name = "noton" ->
                IF RemoveWords(notifygroup.words, c.args).raised THEN cfg
                ELSE Put(cfg, group, [notifygroup EXCEPT !.words = RemoveWords(@, c.args).words])
          [] c.name = "to" ->
                Put(cfg, group, [notifygroup EXCEPT !.targets = AddTargets(@, c.args)])
          [] c.name = "notto" ->
                IF group \notin DOMAIN cfg THEN cfg
                ELSE [cfg EXCEPT ![group].targets = DelTargets(@, c.args).targets]
          [] c.name = "with" ->
                Put(cfg, group, [notifygroup EXCEPT !.message = c.args])
          [] c.name = "clear" ->
                IF group \in DOMAIN cfg THEN Pop(cfg, group) ELSE cfg

\* the stored value after command c has run alone on cfg
Apply(c, cfg) == IF NotGroup(c.group) THEN NoGroups ELSE Body(c, cfg)

SectionFrame ==
    UNCHANGED << now, limiterVars, sleepUntil, worldVars, targets, epc, taskVars, histVars,
                 detectorVars, base_msg, context, rendered, event, statusVars,
                 replies, raised, command >>

\* the "async with" line of command p: the lock is free, the copy is read and
\* the block works on it
SectionEnter(p, c) ==
    /\ ppc[p] = "idle"
    /\ cfg_lock = 0
    /\ cfg_lock' = p
    /\ pcmd' = [pcmd EXCEPT ![p] = c]
    /\ before' = [groups |-> notifygroups, ceiling |-> max_messages_per_second]
    /\ raw_value' = [raw_value EXCEPT ![p] = Body(c, notifygroups)]
    /\ ppc' = [ppc EXCEPT ![p] = "inside"]
    /\ UNCHANGED notifygroups
    /\ SectionFrame

\* the block is left: the copy is stored if it differs from what was read,
\* and the lock is released
SectionExit(p) ==
    /\ ppc[p] = "inside"
    /\ cfg_lock = p
    /\ notifygroups' = IF raw_value[p] # before.groups THEN raw_value[p] ELSE notifygroups
    /\ cfg_lock' = 0
    /\ ppc' = [ppc EXCEPT ![p] = "done"]
    /\ UNCHANGED << pcmd, before, raw_value >>
    /\ SectionFrame

\* 'snitch clear' without a group, run by p: "await
\* self.config.guild(ctx.guild).notifygroups.clear()" is not inside an "async
\* with" block and runs whoever holds the lock
ClearAll(p) ==
    /\ ppc[p] = "idle"
    /\ notifygroups' = NoGroups
    /\ pcmd' = [pcmd EXCEPT ![p] = ClearAllCmd]
    /\ ppc' = [ppc EXCEPT ![p] = "done"]
    /\ UNCHANGED << cfg_lock, before, raw_value >>
    /\ SectionFrame

\* two commands have been given and none has started
InitSections ==
    /\ FanoutIdle
    /\ DetectorIdle
    /\ FreshStatus
    /\ event = PlainEvent
    /\ base_msg = <<>>
    /\ context = PlainContext
    /\ targets = <<>>
    /\ epc = [e \in Events |-> "none"]
    /\ max_messages_per_second = DefaultRate
    /\ notifygroups = StoredGroups
    /\ replies = <<>>
    /\ raised = "none"
    /\ command = NoCommand
    /\ before = [groups |-> NoGroups, ceiling |-> 0]
    /\ cfg_lock = 0
    /\ raw_value = [p \in Commands |-> NoGroups]
    /\ ppc = [p \in Commands |-> "idle"]
    /\ pcmd = [p \in Commands |-> NoCommand]

NextSections ==
    \/ \E p \in Commands, c \in SectionCmds : SectionEnter(p, c)
    \/ \E p \in Commands : SectionExit(p)
    \/ \E p \in Commands : ClearAll(p)

SpecSections == InitSections /\ [][NextSections]_vars

(***************************************************************************)
(* Two notifications at once, each to one target, with the clock running   *)
(* until every sleep has ended.                                            *)
(***************************************************************************)
MaxRetryAfter == CHOOSE r \in RetryAfters : \A x \in RetryAfters : x <= r
\* the clock is read only while a sleep lasts or a timestamp is in the window:
\* each task records at most two timestamps and backs off at most once
LiveHorizon == Cardinality(Events) * (2 * WindowTicks + MaxRetryAfter)

InitLive == InitWith(Events, { << Chan("c1") >>, << Memb("m1") >> })
\* the tasks of these groups: one per event
LiveTasks == Events \X {1}

TickLive ==
    /\ Dispatching
    /\ TimeMatters
    /\ now < LiveHorizon
    /\ now' = now + 1
    /\ UNCHANGED << limiterVars, sleepUntil, worldVars, targets, epc, taskVars, histVars, rendered, otherVars >>

NextLive ==
    \/ \E e \in Events : NotifyWords(e)
    \/ \E e \in Events : NotifyWordsReturn(e)
    \/ \E t \in Tasks : TaskStart(t)
    \/ \E t \in Tasks : WaitIfNeededEnter(t)
    \/ \E t \in Tasks : WaitIfNeededWake(t)
    \/ \E t \in Tasks : MemberSendDone(t)
    \/ \E t \in Tasks : MemberRetryDone(t)
    \/ \E t \in Tasks : TargetSendDone(t)
    \/ \E t \in Tasks : TargetRetryDone(t)
    \/ \E t \in Tasks : BackoffDone(t)
    \/ TickLive

\* time advances; asyncio.Lock wakes its waiters in the order they came, so a
\* caller that finds the lock free again and again does get it; a sleep
\* that is over returns
FairLive ==
    /\ WF_vars(TickLive)
    /\ \A t \in LiveTasks : SF_vars(WaitIfNeededEnter(t))
    /\ \A t \in LiveTasks : WF_vars(WaitIfNeededWake(t))

SpecLive == InitLive /\ [][NextLive]_vars /\ FairLive

(***************************************************************************)
(* What the histories say.                                                 *)
(***************************************************************************)
\* the transport calls task t made to recipient r
AttemptsTo(t, r) == { i \in DOMAIN sent[t] : sent[t][i].to = r }
Attempts(t, r) == Cardinality(AttemptsTo(t, r))
Recipients(t) == { x.to : x \in Range(sent[t]) }

\* the logging.error entries that close a send as failed
FailureKinds == {"EXCEPTION", "RETRY FAILED"}
Failures(t) == { i \in DOMAIN errlog[t] : errlog[t][i].kind \in FailureKinds }

RECURSIVE SumOver(_, _)
SumOver(S, f) ==
    IF S = {} THEN 0
    ELSE LET x == CHOOSE y \in S : TRUE IN f[x] + SumOver(S \ {x}, f)

BatchFailures(e) == SumOver(TasksOf(e), [t \in Tasks |-> Cardinality(Failures(t))])
TotalSlots == SumOver(Tasks, slots)

\* the error log that the answers to a task's own sends call for: nothing for
\* "ok", EXCEPTION for an error, RATE LIMITED for a rate limit and RETRY FAILED
\* if the retry that follows fails too
RECURSIVE ExpectedLog(_, _)
ExpectedLog(s, i) ==
    IF i > Len(s) THEN <<>>
    ELSE IF s[i].resp = "ok" THEN ExpectedLog(s, i + 1)
    ELSE IF s[i].resp = "error"
         THEN << [kind |-> "EXCEPTION", to |-> s[i].to] >> \o ExpectedLog(s, i + 1)
    ELSE IF i + 1 <= Len(s) /\ s[i + 1].to = s[i].to
         THEN << [kind |-> "RATE LIMITED", to |-> s[i].to] >>
              \o (IF s[i + 1].resp = "ok" THEN <<>>
                  ELSE << [kind |-> "RETRY FAILED", to |-> s[i].to] >>)
              \o ExpectedLog(s, i + 2)
    ELSE << [kind |-> "RATE LIMITED", to |-> s[i].to] >> \o ExpectedLog(s, i + 1)

\* every recipient the target of t stood for has been sent to
Delivered(t) == \A r \in expanded[t].to : Attempts(t, r) >= 1
Returned(e) == epc[e] = "returned"

\* the tasks inside "async with sem"
InFlight == { t \in Tasks : pc[t] \notin {"absent", "created", "done"} }

\* the tasks with a send awaiting the transport's answer
Sending == { t \in Tasks : pc[t] \in {"t_send", "m_send", "m_rsend", "t_rsend"} }

\* what the semaphore of one _notify_words call does bound: the tasks of that
\* call inside "async with sem"
PerEventInFlightBounded ==
    \A e \in Events :
        /\ Cardinality(InFlight \cap TasksOf(e)) <= SemCapacity
        /\ epc[e] = "running" => semFree[e] = SemCapacity - Cardinality(InFlight \cap TasksOf(e))

(***************************************************************************)
(* C1..C10                                                                 *)
(***************************************************************************)

\* C1: with the ceiling fixed at m, at every instant t the timestamps the
\* limiter has recorded in the trailing one-second window (t-1, t] number at
\* most m, whatever burst of wait_if_needed calls is made.
C1_WindowWithinCeiling ==
    \A t \in 0..MaxTime :
        Cardinality(InWindow(message_timestamps, t)) <= max_messages_per_second

\* C1 witness: more sends than the ceiling were asked for, one caller slept
\* for its slot and recorded it (the list then holds the m it found plus its
\* own), and the window is full.
C1_Witness ==
    /\ TotalSlots > max_messages_per_second
    /\ lock = NoTask
    /\ Len(message_timestamps) > max_messages_per_second
    /\ Cardinality(InWindow(message_timestamps, now)) = max_messages_per_second
    /\ \E i \in DOMAIN message_timestamps : message_timestamps[i] = now /\ now > 0

\* C2: when _notify_words has returned, every recipient of every target was
\* sent to, each task's error log is the one its own sends' answers call for
\* (no other target's failure shows in it), and the failures recorded for the
\* batch are as many as the sends that failed: one, if one send failed.
C2_FailureIsolation ==
    \A e \in Events :
        Returned(e) =>
            /\ \A t \in TasksOf(e) : Delivered(t) /\ errlog[t] = ExpectedLog(sent[t], 1)
            /\ LET failed == { t \in TasksOf(e) : \E x \in Range(sent[t]) : x.resp # "ok" }
               IN  (Cardinality(failed) = 1
                    /\ \A t \in failed : sent[t] = << [to |-> sent[t][1].to, resp |-> "error"] >>)
                   => BatchFailures(e) = 1

\* C2 witness: three targets, the middle one failed with an exception, the
\* other two were sent to and succeeded, one failure is recorded.
C2_Witness ==
    /\ Returned(1)
    /\ Len(targets) = 3
    /\ sent[<<1, 2>>] = << [to |-> "c1", resp |-> "error"] >>
    /\ sent[<<1, 1>>] = << [to |-> "m1", resp |-> "ok"] >>
    /\ sent[<<1, 3>>] = << [to |-> "m1", resp |-> "ok"] >>
    /\ BatchFailures(1) = 1

\* C3: no send (one recipient of one target of one event) is attempted more
\* than 3 times, and a send that was answered
\* "rate limited" on its first attempt and on its retry is recorded as failed
\* and left alone.
C3_RetryCeiling ==
    \A t \in Tasks :
        /\ \A r \in Recipients(t) : Attempts(t, r) <= 3
        /\ pc[t] = "done" =>
              \A r \in Recipients(t) :
                  (Attempts(t, r) >= 2 /\ \A i \in AttemptsTo(t, r) : sent[t][i].resp = "rate_limited")
                  => \E j \in Failures(t) : errlog[t][j].to = r

\* C3 witness: a member and a channel were each rate limited twice, and each
\* has its RETRY FAILED entry.
C3_Witness ==
    \E t, u \in Tasks :
        /\ pc[t] = "done" /\ pc[u] = "done"
        /\ sent[t] = << [to |-> "m1", resp |-> "rate_limited"], [to |-> "m1", resp |-> "rate_limited"] >>
        /\ sent[u] = << [to |-> "c1", resp |-> "rate_limited"], [to |-> "c1", resp |-> "rate_limited"] >>
        /\ errlog[t][2] = [kind |-> "RETRY FAILED", to |-> "m1"]
        /\ errlog[u][2] = [kind |-> "RETRY FAILED", to |-> "c1"]

\* C4: a send answered with a failure other than "rate limited" is not
\* attempted again: no later send of the task goes to that recipient.
C4_NoRetryAfterError ==
    \A t \in Tasks :
        \A i, j \in DOMAIN sent[t] :
            (sent[t][i].resp = "error" /\ i < j) => sent[t][j].to # sent[t][i].to

\* C4 witness: a direct message and a channel send each failed with an
\* exception and each task is over after that one attempt.
C4_Witness ==
    \E t, u \in Tasks :
        /\ pc[t] = "done" /\ pc[u] = "done"
        /\ sent[t] = << [to |-> "m1", resp |-> "error"] >>
        /\ sent[u] = << [to |-> "c1", resp |-> "error"] >>

\* C5: the sends in flight that share the limiter (here: the tasks with a
\* transport call outstanding) are never more than the semaphore has permits,
\* also with several _notify_words calls at once.
C5_InFlightBounded == Cardinality(Sending) <= SemCapacity

\* C6: once _notify_words has returned, every task of the event is over: none
\* is waiting for the limiter, sending, or backing off.
C6_ReturnsAfterAll ==
    \A e \in Events :
        Returned(e) => \A t \in TasksOf(e) : pc[t] = "done" /\ lock # t

\* C6 witness: an event of several targets returned after a retry.
C6_Witness ==
    /\ Returned(1)
    /\ Len(targets) >= 2
    /\ \E t \in TasksOf(1) : Len(sent[t]) = 2
    /\ \A t \in TasksOf(1) : sent[t] # <<>>

\* C7: no direct message goes to a bot account, on a first attempt or a retry,
\* for a Member target or a member of a Role target.
C7_NoSendToBot ==
    \A t \in Tasks : \A x \in Range(sent[t]) : x.to \notin Bots

\* C7 witness: a bot was a Member target, and a member of a Role target whose
\* human member was sent to with a retry; both tasks are over.
C7_Witness ==
    /\ targets = << Memb("bot1"), Role("r1") >>
    /\ pc[<<1, 1>>] = "done"
    /\ pc[<<1, 2>>] = "done"
    /\ expanded[<<1, 1>>].live
    /\ "bot1" \in roleMembers["r1"]
    /\ Len(sent[<<1, 2>>]) = 2

\* C8: a Role target's recipients are the non-bot members the role has when
\* the target is dispatched, whatever it had when it was configured.
C8_RoleReadAtDispatch ==
    \A t \in Tasks :
        (t[2] \in DOMAIN targets /\ TargetOf(t).type = "Role" /\ pc[t] = "done")
        => Recipients(t) = expanded[t].to

\* C8 witness: since configuration m2 joined the role and m1 left it; m2 was
\* sent to and m1 was not.
C8_Witness ==
    \E t \in Tasks :
        /\ t[2] \in DOMAIN targets /\ TargetOf(t).type = "Role" /\ pc[t] = "done"
        /\ "m1" \in ConfigRoleMembers /\ "m2" \notin ConfigRoleMembers
        /\ Recipients(t) = {"m2"}

\* C9: a target whose id resolves to nothing when it is dispatched makes no
\* send, takes no slot of the limiter and records no failure, and the other
\* targets of the batch are delivered.
C9_StaleTargetSkipped ==
    /\ \A t \in Tasks :
          (pc[t] \notin {"absent", "created"} /\ ~expanded[t].live)
          => pc[t] = "done" /\ sent[t] = <<>> /\ slots[t] = 0 /\ errlog[t] = <<>>
    /\ \A e \in Events : Returned(e) => \A t \in TasksOf(e) : Delivered(t)

\* C9 witness: the channel was deleted before its task read it, the member
\* target of the same batch was sent to.
C9_Witness ==
    /\ Returned(1)
    /\ targets = << Memb("m1"), Chan("c1") >>
    /\ ~expanded[<<1, 2>>].live
    /\ sent[<<1, 1>>] = << [to |-> "m1", resp |-> "ok"] >>
    /\ slots[<<1, 1>>] = 1

\* the word occurs in the text, in any letter case, with no word character
\* right before it or right after it
OccursAsWholeWord(w, text) ==
    \E pos \in 1..Len(text) :
        /\ pos + Len(w) - 1 <= Len(text)
        /\ \A k \in 1..Len(w) : Lower(text[pos + k - 1]) = Lower(w[k])
        /\ pos = 1 \/ ~IsWordChar(text[pos - 1])
        /\ pos + Len(w) > Len(text) \/ ~IsWordChar(text[pos + Len(w)])

\* the set _check_words passes on holds the word, in some letter case
Reported(w) ==
    \E x \in matches : Len(x) = Len(w) /\ \A k \in 1..Len(w) : Lower(x[k]) = Lower(w[k])

\* C10: _check_words reports a configured word as matched if and only if it
\* occurs in the text as a case-insensitive whole word, whatever the other
\* configured words are.
C10_MatchedIffWholeWord ==
    dpc # "ready" =>
        \A k \in DOMAIN word_list :
            Reported(word_list[k]) <=> OccursAsWholeWord(word_list[k], content)

(***************************************************************************)
(* C11..C20                                                                *)
(***************************************************************************)

\* the entries of the set _check_words passes on that are the word w, in
\* whatever letter case the message wrote it
EntriesFor(w) ==
    { x \in matches : Len(x) = Len(w) /\ \A k \in 1..Len(w) : Lower(x[k]) = Lower(w[k]) }

\* C11: a configured word contributes at most one entry to the matched-word
\* set _check_words passes to _notify_words, however often and in whatever
\* letter cases the message holds it.
C11_OneEntryPerWord ==
    dpc # "ready" =>
        \A k \in DOMAIN word_list : Cardinality(EntriesFor(word_list[k])) <= 1

\* the tokens of a template
TokenNames == {"author", "words", "server", "channel"}

\* the template with each marker it holds replaced by its value, in one pass
\* from left to right that never looks at a value it has put in
RECURSIVE SinglePass(_, _)
SinglePass(s, ctx) ==
    IF s = <<>> THEN <<>>
    ELSE IF \E n \in TokenNames : StartsWith(s, Marker(n))
         THEN LET n == CHOOSE m \in TokenNames : StartsWith(s, Marker(m))
              IN  ctx[n] \o SinglePass(SubSeq(s, Len(Marker(n)) + 1, Len(s)), ctx)
         ELSE << Head(s) >> \o SinglePass(Tail(s), ctx)

\* C12: the body _notify_words renders is the template with each token
\* replaced by its context value and nothing else: a value that holds the
\* text of a marker is in the body as it is, not replaced in turn.
C12_SinglePassRender ==
    \A e \in Events :
        epc[e] \in {"running", "returned"} =>
            rendered[e] = SinglePass(IF base_msg = <<>> THEN DefaultTemplate ELSE base_msg, context)

\* no entry twice
NoDuplicates(list) == \A i, j \in DOMAIN list : list[i] = list[j] => i = j

\* C13: no group's word list ever holds an entry twice, and a 'snitch on' that
\* names only words the group already has leaves its word list as it was.
C13_AddIdempotent ==
    /\ \A g \in DOMAIN notifygroups : NoDuplicates(notifygroups[g].words)
    /\ (command.name = "on"
        /\ command.group[1] \in DOMAIN before.groups
        /\ Range(command.args) \subseteq Range(before.groups[command.group[1]].words))
       => notifygroups[command.group[1]].words = before.groups[command.group[1]].words

\* C13 witness: 'snitch on tech wifi wifi' for a group that had "lan" and
\* "wifi": the list is as before, two entries.
C13_Witness ==
    /\ command = Cmd("on", << "tech" >>, << "wifi", "wifi" >>, 0)
    /\ "tech" \in DOMAIN before.groups
    /\ before.groups["tech"].words = << "lan", "wifi" >>
    /\ notifygroups["tech"].words = << "lan", "wifi" >>

\* C14: 'snitch clear <group>' removes the named group and leaves every other
\* group as it was, 'snitch clear' without a name leaves no group, and
\* clearing a name that is not configured changes nothing.
C14_ClearFrame ==
    command.name = "clear" =>
        IF command.group = <<>> THEN notifygroups = NoGroups
        ELSE IF command.group[1] \in DOMAIN before.groups
             THEN notifygroups = Pop(before.groups, command.group[1])
        ELSE notifygroups = before.groups

\* C15: a 'snitch noton' or 'snitch notto' never ends with an exception and
\* answers with a message for every word or target it names, present or not.
C15_RemoveAbsentReported ==
    command.name \in {"noton", "notto"} =>
        /\ raised = "none"
        /\ Len(replies) >= Len(command.args)

\* C17: the ceiling is always within [1, 50]; a 'snitch setrate' with a value
\* outside is answered with the refusal and leaves the ceiling as it was, one
\* with a value inside makes that value the ceiling.
C17_CeilingInRange ==
    /\ max_messages_per_second \in RateFloor..RateCap
    /\ command.name = "setrate" =>
          IF command.value \in RateFloor..RateCap
          THEN max_messages_per_second = command.value
          ELSE /\ max_messages_per_second = before.ceiling
               /\ replies = << Reply("Rate limit must be between 1 and 50", "") >>

\* C17 witness: the ceiling was set to 50, then 51 was asked for and refused.
C17_Witness ==
    /\ command.name = "setrate"
    /\ command.value = RateCap + 1
    /\ before.ceiling = RateCap
    /\ max_messages_per_second = RateCap

\* C16: a message, new or edited, whose author is a bot account never gets to
\* _check_words and no send is made for it, whatever its text.
C16_BotAuthorIgnored ==
    IsBot(event.author) =>
        /\ dpc \in {"arrived", "ignored"}
        /\ matches = {}
        /\ \A e \in Events : epc[e] = "none"
        /\ \A t \in Tasks : sent[t] = <<>> /\ slots[t] = 0

\* C16 witness: an edited message of a bot member that holds the trigger word
\* and passes every other test of on_message was handled and ignored.
C16_Witness ==
    /\ event = [guild |-> TRUE, disabled |-> FALSE, prefix |-> FALSE,
                author |-> "bot", immune |-> FALSE, edited |-> TRUE]
    /\ content = << "b", " ", "A" >>
    /\ dpc = "ignored"

\* task t is in the asyncio.sleep of wait_if_needed, waiting for a slot
AsleepForSlot(t) == pc[t] \in WaitLocs /\ sleepUntil[t] > now

\* C18: a caller asleep in wait_if_needed, waiting for a slot, does not hold
\* the limiter's lock (so that another caller can take it meanwhile).
C18_SleepWithoutLock == \A t \in Tasks : AsleepForSlot(t) => lock # t

\* the timestamp the step has appended to the window
Appended == message_timestamps'[Len(message_timestamps')]

\* C19: the timestamp a wait_if_needed call appends is the time at which the
\* call goes on to the send: after a wait it is the time read when the wait
\* is over, later than the time the call was entered with; without a wait it
\* is the time of entry.
C19_StampIsProceedTime ==
    [][ \A t \in Tasks :
            slots'[t] = slots[t] + 1 =>
                IF lock = t
                THEN Appended = now /\ Appended >= sleepUntil[t] /\ Appended > current_time[t]
                ELSE Appended = now ]_vars

\* C19 witness: a caller found the window full, slept until the oldest
\* timestamp was a second old, and has recorded its own: the list holds the
\* ceiling's worth it found and the new one, a second or more apart.
C19_Witness ==
    /\ lock = NoTask
    /\ Len(message_timestamps) = max_messages_per_second + 1
    /\ message_timestamps[Len(message_timestamps)] = now
    /\ now - message_timestamps[1] >= WindowTicks
    /\ \E t \in Tasks : slots[t] >= 1 /\ pc[t] \in {"t_send", "m_send"}

\* C20: the sleep that follows a "rate limited" answer lasts at least the
\* floor of 2 seconds (2 * WindowTicks ticks), whatever retry_after the
\* transport reported.
C20_BackoffFloor ==
    [][ \A t \in Tasks :
            (pc[t] \notin {"m_backoff", "t_backoff"} /\ pc'[t] \in {"m_backoff", "t_backoff"})
            => sleepUntil'[t] >= now + 2 * WindowTicks ]_vars

(***************************************************************************)
(* C21..C25                                                                *)
(***************************************************************************)
\* the send attempts of a task: the answered ones and the one under way
SendAttempts(t) == Len(sent[t]) + (IF t \in Sending THEN 1 ELSE 0)

\* C24: every send attempt, first or retry, to a member or to a channel, comes
\* after a completed wait_if_needed call of its own: for every task, and so in
\* total, the send attempts are never more than the timestamps recorded.
C24_SendAfterWait ==
    /\ \A t \in Tasks : SendAttempts(t) <= slots[t]
    /\ SumOver(Tasks, [t \in Tasks |-> SendAttempts(t)]) <= TotalSlots

\* C24 witness: the retry to a channel is under way, the second attempt after
\* the second recorded timestamp, and a member has had its first attempt and
\* its retry, with two recorded timestamps.
C24_Witness ==
    \E t, u \in Tasks :
        /\ pc[t] = "t_rsend" /\ Len(sent[t]) = 1 /\ slots[t] = 2
        /\ pc[u] = "done" /\ Len(sent[u]) = 2 /\ slots[u] = 2
        /\ sent[u][1].to \in Members /\ sent[u][2].to = sent[u][1].to

\* a step of update_from_headers that has an effect
HeadersCall ==
    \/ headers' # headers
    \/ remaining_requests' # remaining_requests
    \/ rate_limit_reset_time' # rate_limit_reset_time

\* a step in which wait_if_needed, called by t, takes its decision
Decides(t) ==
    /\ pc[t] \in WaitLocs
    /\ lock = NoTask
    /\ lock' = t \/ slots'[t] = slots[t] + 1

\* C21: update_from_headers changes remaining_requests and
\* rate_limit_reset_time only: the timestamp list and the ceiling (and the
\* lock and the sleeps) stay as they are, and no exception leaves the method
\* whatever the header values are; and whether wait_if_needed waits is
\* settled by the pruned timestamp list and the ceiling alone, whatever the
\* two counters hold.
C21_HeadersFrame ==
    [][ /\ HeadersCall =>
              /\ UNCHANGED << message_timestamps, max_messages_per_second, lock, current_time, sleepUntil >>
              /\ raised' = "none"
        /\ \A t \in Tasks :
              Decides(t) =>
                  ((lock' = t) <=>
                      /\ Len(Prune(message_timestamps, now)) >= max_messages_per_second
                      /\ WaitTime(Prune(message_timestamps, now), now) > 0)
      ]_vars

\* C21 witness: the counters were set from well-formed values (12, and 1.5
\* seconds), the last dict carried a value that is no number, nothing was
\* raised, and a caller of wait_if_needed is asleep.
C21_Witness ==
    /\ "X-RateLimit-Remaining" \in DOMAIN headers
    /\ headers["X-RateLimit-Remaining"] = << "x" >>
    /\ remaining_requests = 12
    /\ rate_limit_reset_time = 15
    /\ raised = "none"
    /\ \E t \in Tasks : lock = t /\ sleepUntil[t] > now

\* a step in which wait_if_needed records a timestamp
Records == \E t \in Tasks : slots'[t] = slots[t] + 1

\* C25: whenever wait_if_needed records a send while the ceiling is m, the
\* trailing window, the new timestamp included, holds at most m recorded
\* sends, also after 'snitch setrate' lowered the ceiling to m while more than
\* m sends were in the window.
C25_CeilingAcrossChanges ==
    [][ Records =>
            Cardinality(InWindow(message_timestamps', now')) <= max_messages_per_second'
      ]_vars

\* C22: every mutation of a server's groups runs inside the exclusive
\* read-modify-write section, so that two commands of one server take effect
\* one after the other: when both are over, the stored groups are what the
\* two commands give when run one at a time, in one order or the other; no
\* completed mutation is undone by the other command's write-back.
C22_MutationsSerialized ==
    (\A p \in Commands : ppc[p] = "done") =>
        \E p, q \in Commands :
            /\ p # q
            /\ notifygroups = Apply(pcmd[q], Apply(pcmd[p], StoredGroups))

\* C23: no caller of wait_if_needed is starved: with time advancing and the
\* callers scheduled fairly, every call, of any of the callers that run at
\* once, records its timestamp and returns.
C23_NoStarvation ==
    \A t \in LiveTasks : (pc[t] \in WaitLocs) ~> (pc[t] \notin WaitLocs)

\* C23 witness: a caller sleeps for its slot with the lock held, and another
\* caller, which has recorded one timestamp before and calls again for its
\* retry, is kept waiting for the lock.
C23_Witness ==
    \E t, u \in Tasks :
        /\ t # u
        /\ lock = t /\ sleepUntil[t] > now
        /\ pc[u] \in WaitLocs /\ slots[u] >= 1


=============================================================================
